---- MODULE Spec2Model ----
(***************************************************************************)
(* Multimodal input adaptation of clembench (backends/multimodal_utils):   *)
(* adaptive image tiling, conversation-to-prompt adapters of the InternVL2 *)
(* and Dolphin backends, and the layer-to-device planner.                  *)
(*                                                                         *)
(* Every operation of the source is a function called by the surrounding   *)
(* backend; the model is a machine that calls them in any order with       *)
(* inputs drawn from bounded sets.  `op`, `args` and `ret` hold the last   *)
(* call (its name, its arguments as left after the call, what it returned  *)
(* or raised); `default_device` is the one piece of process-wide state the *)
(* source writes (torch's default device).                                 *)
(*                                                                         *)
(* Text is a sequence of symbols, never an opaque value: a content string  *)
(* is a sequence of text symbols, the placeholder "<image>" is one symbol, *)
(* so prefixing, splitting and tokenizing are computed, not assumed.       *)
(* Quotients (aspect ratios) are kept as exact fractions [n, d]; where the  *)
(* rounding of the doubles decides a comparison, every outcome is taken.   *)
(***************************************************************************)
EXTENDS Integers, Sequences, FiniteSets, TLC

VARIABLES op, args, ret, default_device

vars == <<op, args, ret, default_device>>

-----------------------------------------------------------------------------
(* Bounds of the model *)

MaxDim == 6        \* image width and height range over 1..MaxDim
MaxTiles == 4      \* min_num and max_num range over -1..MaxTiles
MaxTileSize == 2   \* image_size (tile edge) ranges over 1..MaxTileSize

Dims == 1..MaxDim
TileArgs == (0 - 1)..MaxTiles
TileSizes == 1..MaxTileSize

-----------------------------------------------------------------------------
(* Floating-point quotients *)

\* The source computes width / height and i / j as doubles.  A quotient is
\* kept as the exact fraction [n, d] it rounds; comparisons of differences
\* are decided on the exact values where the doubles must agree with them and
\* left open where rounding decides (FloatCompare).

Abs(x) == IF x < 0 THEN 0 - x ELSE x

Frac(n, d) == [n |-> n, d |-> d]

\* float('inf'): larger than every fraction with a positive denominator
Inf == Frac(1, 0)

\* |a - b| for fractions with positive denominators
FracAbsDiff(a, b) == Frac(Abs(a.n * b.d - b.n * a.d), a.d * b.d)

FracLess(a, b) == a.n * b.d < b.n * a.d

FracEq(a, b) == a.n * b.d = b.n * a.d

RECURSIVE GCD(_, _)
GCD(a, b) == IF b = 0 THEN a ELSE GCD(b, a % b)

RECURSIVE IsPowerOfTwo(_)
IsPowerOfTwo(n) == n = 1 \/ (n > 1 /\ n % 2 = 0 /\ IsPowerOfTwo(n \div 2))

\* The quotient n / d is a double without rounding: its reduced denominator
\* is a power of two (the numerators modelled are far below 2^53).
ExactDouble(f) == IsPowerOfTwo(f.d \div GCD(f.n, f.d))

\* The possible outcomes of comparing, as doubles, the difference of
\* aspect_ratio to `ratio` with the stored difference of aspect_ratio to
\* `diff_ratio`, whose exact value is best_ratio_diff.  Differences that
\* differ exactly differ by far more than a rounding error, so the doubles
\* compare the same way.  Exactly equal differences are equal doubles when
\* both come from the same quotient, or when no operand was rounded;
\* otherwise the roundings of the two subtractions decide, either way.
FloatCompare(aspect_ratio, ratio, best_ratio_diff, diff_ratio) ==
  LET this == Frac(ratio[1], ratio[2])
      other == Frac(diff_ratio[1], diff_ratio[2])
      ratio_diff == FracAbsDiff(aspect_ratio, this)
  IN  IF FracLess(ratio_diff, best_ratio_diff) THEN {"lt"}
      ELSE IF FracLess(best_ratio_diff, ratio_diff) THEN {"gt"}
      ELSE IF FracEq(this, other) THEN {"eq"}
      ELSE IF ExactDouble(aspect_ratio) /\ ExactDouble(this) /\ ExactDouble(other)
        THEN {"eq"}
      ELSE {"lt", "eq", "gt"}

-----------------------------------------------------------------------------
(* find_closest_aspect_ratio *)

\* State of the scan before the first candidate (lines 124-125).  diff_ratio
\* is the candidate whose difference best_ratio_diff holds, and cmp how the
\* last candidate's difference compared with it; neither is read before a
\* candidate has set it.
ScanInit ==
  [best_ratio_diff |-> Inf, best_ratio |-> <<1, 1>>,
   diff_ratio |-> <<1, 1>>, cmp |-> "none"]

\* ScanStep with the best difference never recorded (line 131 dropped).
ScanStepDiffNotRecorded(st, ratio, aspect_ratio, area, image_size, cmp) ==
  IF cmp = "lt"
    THEN [st EXCEPT !.best_ratio = ratio, !.cmp = cmp]
  ELSE IF cmp = "eq"
    THEN IF 2 * area > image_size * image_size * ratio[1] * ratio[2]
           THEN [st EXCEPT !.best_ratio = ratio, !.cmp = cmp]
           ELSE [st EXCEPT !.cmp = cmp]
  ELSE [st EXCEPT !.cmp = cmp]

\* ScanStep with the tie-break comparing the other way round: the candidate
\* wins a tie when its tile area exceeds half the source area.
ScanStepTileAreaWins(st, ratio, aspect_ratio, area, image_size, cmp) ==
  IF cmp = "lt"
    THEN [best_ratio_diff |-> FracAbsDiff(aspect_ratio, Frac(ratio[1], ratio[2])),
          best_ratio |-> ratio, diff_ratio |-> ratio, cmp |-> cmp]
  ELSE IF cmp = "eq"
    THEN IF 2 * image_size * image_size * ratio[1] * ratio[2] > area
           THEN [st EXCEPT !.best_ratio = ratio, !.cmp = cmp]
           ELSE [st EXCEPT !.cmp = cmp]
  ELSE [st EXCEPT !.cmp = cmp]

\* One iteration of the loop over target_ratios (lines 128-135), `cmp` being
\* how ratio_diff compares with best_ratio_diff.  `area` is width * height;
\* area > 0.5 * image_size^2 * i * j is exact in doubles and is compared
\* doubled, in integers.
ScanStep(st, ratio, aspect_ratio, area, image_size, cmp) ==
  IF cmp = "lt"
    THEN [best_ratio_diff |-> FracAbsDiff(aspect_ratio, Frac(ratio[1], ratio[2])),
          best_ratio |-> ratio, diff_ratio |-> ratio, cmp |-> cmp]
  ELSE IF cmp = "eq"
    THEN IF 2 * area > image_size * image_size * ratio[1] * ratio[2]
           THEN [st EXCEPT !.best_ratio = ratio, !.cmp = cmp]
           ELSE [st EXCEPT !.cmp = cmp]
  ELSE [st EXCEPT !.cmp = cmp]

\* The runs of the loop from state st: each a sequence of the scan states
\* after 1, 2, ... candidates.
RECURSIVE ScanFrom(_, _, _, _, _)
ScanFrom(st, target_ratios, aspect_ratio, area, image_size) ==
  IF target_ratios = <<>> THEN {<<>>}
  ELSE UNION {
         LET next == ScanStep(st, Head(target_ratios), aspect_ratio, area, image_size, cmp)
         IN  { <<next>> \o rest :
                 rest \in ScanFrom(next, Tail(target_ratios), aspect_ratio, area, image_size) } :
         cmp \in FloatCompare(aspect_ratio, Head(target_ratios),
                              st.best_ratio_diff, st.diff_ratio) }

\* What the function returns after a run: the best ratio after the last
\* candidate, or the initial (1, 1) when there was no candidate.
BestOfScan(scan) ==
  IF scan = <<>> THEN ScanInit.best_ratio ELSE scan[Len(scan)].best_ratio

\* The runs of find_closest_aspect_ratio on its arguments.
FindClosestAspectRatio(aspect_ratio, target_ratios, width, height, image_size) ==
  ScanFrom(ScanInit, target_ratios, aspect_ratio, width * height, image_size)

-----------------------------------------------------------------------------
(* dynamic_preprocess *)

\* The candidate set of lines 155-157.
TargetRatioSet(min_num, max_num) ==
  UNION { { p \in (1..n) \X (1..n) : p[1] * p[2] <= max_num /\ p[1] * p[2] >= min_num } :
          n \in min_num..max_num }

RECURSIVE Perms(_)
Perms(S) ==
  IF S = {} THEN {<<>>}
  ELSE UNION { { <<x>> \o p : p \in Perms(S \ {x}) } : x \in S }

RECURSIVE SortedFrom(_, _, _)
SortedFrom(S, k, hi) ==
  IF k > hi THEN {<<>>}
  ELSE { p \o r : p \in Perms({c \in S : c[1] * c[2] = k}),
                  r \in SortedFrom(S, k + 1, hi) }

\* sorted(set, key = i * j), line 158: ascending by product; candidates of
\* equal product keep the set's iteration order, which the language leaves
\* unspecified, so every such order is a possible outcome.
SortedByProduct(S, max_num) == SortedFrom(S, 1, max_num)

\* The crop box of block i (0-based), lines 173-178.
Box(i, target_width, image_size) ==
  << (i % (target_width \div image_size)) * image_size,
     (i \div (target_width \div image_size)) * image_size,
     ((i % (target_width \div image_size)) + 1) * image_size,
     ((i \div (target_width \div image_size)) + 1) * image_size >>

\* AppendThumbnail without the single-tile exception.
AppendThumbnailAlways(use_thumbnail, processed_images) == use_thumbnail

\* Whether the thumbnail is appended (line 183).
AppendThumbnail(use_thumbnail, processed_images) ==
  use_thumbnail /\ Len(processed_images) # 1

\* Lines 164-186 for the chosen grid: resize, crop block by block, append
\* the thumbnail.  Returns the tiles and the image operations, in order.
TilesOfGrid(image, target_aspect_ratio, image_size, use_thumbnail) ==
  LET target_width == image_size * target_aspect_ratio[1]
      target_height == image_size * target_aspect_ratio[2]
      blocks == target_aspect_ratio[1] * target_aspect_ratio[2]
      processed_images ==
        [i \in 1..blocks |->
           [kind |-> "crop", from |-> <<target_width, target_height>>,
            box |-> Box(i - 1, target_width, image_size)]]
      thumbnail_img ==
        [kind |-> "thumbnail", from |-> image, box |-> <<0, 0, image_size, image_size>>]
  IN  IF AppendThumbnail(use_thumbnail, processed_images)
        THEN [tiles |-> Append(processed_images, thumbnail_img),
              io |-> <<"resize">> \o [i \in 1..blocks |-> "crop"] \o <<"resize">>]
        ELSE [tiles |-> processed_images,
              io |-> <<"resize">> \o [i \in 1..blocks |-> "crop"]]

\* dynamic_preprocess on an image of size `image` = <<width, height>>, with
\* `target_ratios` the outcome of the sort and `scan` the run of
\* find_closest_aspect_ratio.  Returns the tiles, the chosen grid, the scan
\* states and the image operations performed, in order.
DynamicPreprocessBody(image, min_num, max_num, image_size, use_thumbnail, target_ratios, scan) ==
  LET target_aspect_ratio == BestOfScan(scan)
      made == TilesOfGrid(image, target_aspect_ratio, image_size, use_thumbnail)
  IN  [status |-> "ok",
       tiles |-> made.tiles,
       grid |-> target_aspect_ratio,
       target_ratios |-> target_ratios,
       scan |-> scan,
       io |-> made.io]

DynamicPreprocess ==
  /\ op = "none"
  /\ \E min_num \in TileArgs, max_num \in TileArgs :
       \E target_ratios \in SortedByProduct(TargetRatioSet(min_num, max_num), max_num) :
         \E w \in Dims, h \in Dims, image_size \in TileSizes, use_thumbnail \in BOOLEAN :
           \E scan \in FindClosestAspectRatio(Frac(w, h), target_ratios, w, h, image_size) :
             /\ op' = "dynamic_preprocess"
             /\ args' = [image |-> <<w, h>>, min_num |-> min_num, max_num |-> max_num,
                         image_size |-> image_size, use_thumbnail |-> use_thumbnail]
             /\ ret' = DynamicPreprocessBody(<<w, h>>, min_num, max_num, image_size,
                                             use_thumbnail, target_ratios, scan)
             /\ UNCHANGED default_device

-----------------------------------------------------------------------------
(* load_image *)

\* Image references: a URL or a local path (line 199 tests the prefix).
ImageFiles == { [scheme |-> "http", name |-> "u1.png"],
                [scheme |-> "file", name |-> "u2.png"] }

StartsWithHttp(image_file) == image_file.scheme = "http"

\* load_image once the reference has been fetched and decoded to an image of
\* size `image`: tiles with min_num = 1 (the default) and use_thumbnail = True,
\* then the transform, which resizes every tile to input_size x input_size.
LoadImageBody(image_file, image, input_size, max_num, target_ratios, scan) ==
  LET images == DynamicPreprocessBody(image, 1, max_num, input_size, TRUE, target_ratios, scan)
      fetch == IF StartsWithHttp(image_file) THEN "requests.get" ELSE "Image.open"
  IN  [status |-> "ok",
       pixel_values |-> [i \in 1..Len(images.tiles) |->
                           [kind |-> images.tiles[i].kind,
                            size |-> <<input_size, input_size>>]],
       grid |-> images.grid,
       io |-> <<fetch>> \o images.io]

\* A reference that cannot be fetched or decoded raises in line 200-203.
LoadImageFailure(image_file) ==
  [status |-> "error", error |-> "ImageLoadError",
   io |-> <<IF StartsWithHttp(image_file) THEN "requests.get" ELSE "Image.open">>]

LoadImage ==
  /\ op = "none"
  /\ \E max_num \in TileArgs :
       \E target_ratios \in SortedByProduct(TargetRatioSet(1, max_num), max_num) :
         \E image_file \in ImageFiles, input_size \in TileSizes :
           /\ op' = "load_image"
           /\ args' = [image_file |-> image_file, input_size |-> input_size,
                       max_num |-> max_num, min_num |-> 1]
           /\ \/ \E w \in Dims, h \in Dims :
                   \E scan \in FindClosestAspectRatio(Frac(w, h), target_ratios, w, h,
                                                      input_size) :
                     ret' = LoadImageBody(image_file, <<w, h>>, input_size, max_num,
                                          target_ratios, scan)
              \/ ret' = LoadImageFailure(image_file)
           /\ UNCHANGED default_device

-----------------------------------------------------------------------------

(* Conversations *)

MaxTurns == 4          \* turns given to generate_history_internvl2: 0..MaxTurns
MaxDolphinTurns == 3   \* turns given to DolphinMLLM.prepare_inputs: 0..MaxDolphinTurns

Roles == {"system", "user", "assistant"}

\* Content strings, as sequences of text symbols.
Contents == { <<"A">>, <<"B">> }

\* The value under a message's 'image' key: a str, a list of str, or a value
\* of another type.
ImageValues == { [kind |-> "str", ref |-> "u1.png"],
                 [kind |-> "list", refs |-> <<"u1.png", "u2.png">>],
                 [kind |-> "other"] }

\* Messages: user turns with and without the 'image' key, assistant turns,
\* a system turn, and a turn whose role is none of the three.
UserTurns ==
  { [role |-> "user", content |-> c] : c \in Contents }
    \cup { [role |-> "user", content |-> c, image |-> v] :
             c \in Contents, v \in ImageValues }

OtherTurns ==
  { [role |-> "assistant", content |-> c] : c \in Contents }
    \cup { [role |-> "system", content |-> <<"S">>],
           [role |-> "moderator", content |-> <<"M">>] }

\* For generate_history_internvl2 only the presence of the 'image' key counts.
InternVL2Turns ==
  { m \in UserTurns : "image" \in DOMAIN m => m.image.kind = "list" } \cup OtherTurns

DolphinTurns == UserTurns \cup OtherTurns

SeqsUpTo(S, n) == UNION { [1..k -> S] : k \in 0..n }

-----------------------------------------------------------------------------
(* generate_history_internvl2 *)

\* The prefix line 44 puts before the content of a user turn with an image.
InternVL2ImagePrefix == <<"</image>", "\n">>

\* Locals before the loop: history = [], user_message not yet bound.
HistoryInit ==
  [history |-> <<>>, user_message |-> [bound |-> FALSE, val |-> <<>>],
   raised |-> "none"]

\* The loop body with a system turn held like a user turn instead of skipped.
HistoryStepSystemHeld(st, msg) ==
  IF st.raised # "none" THEN st
  ELSE IF msg.role \in {"user", "system"}
    THEN [st EXCEPT !.user_message =
            [bound |-> TRUE,
             val |-> IF "image" \in DOMAIN msg
                       THEN InternVL2ImagePrefix \o msg.content
                       ELSE msg.content]]
  ELSE IF msg.role = "assistant"
    THEN IF st.user_message.bound
           THEN [st EXCEPT !.history = Append(@, <<st.user_message.val, msg.content>>)]
           ELSE [st EXCEPT !.raised = "UnboundLocalError"]
  ELSE [st EXCEPT !.raised = "ValueError"]

\* One iteration of the loop of lines 39-50.  Reading user_message before any
\* user turn has bound it raises UnboundLocalError; an exception ends the loop.
HistoryStep(st, msg) ==
  IF st.raised # "none" THEN st
  ELSE IF msg.role = "system" THEN st
  ELSE IF msg.role = "user"
    THEN [st EXCEPT !.user_message =
            [bound |-> TRUE,
             val |-> IF "image" \in DOMAIN msg
                       THEN InternVL2ImagePrefix \o msg.content
                       ELSE msg.content]]
  ELSE IF msg.role = "assistant"
    THEN IF st.user_message.bound
           THEN [st EXCEPT !.history = Append(@, <<st.user_message.val, msg.content>>)]
           ELSE [st EXCEPT !.raised = "UnboundLocalError"]
  ELSE [st EXCEPT !.raised = "ValueError"]

RECURSIVE HistoryLoop(_, _)
HistoryLoop(st, messages) ==
  IF messages = <<>> THEN st
  ELSE HistoryLoop(HistoryStep(st, Head(messages)), Tail(messages))

GenerateHistoryInternVL2Body(messages) ==
  LET st == HistoryLoop(HistoryInit, messages)
  IN  IF st.raised # "none" THEN [status |-> "error", error |-> st.raised]
      ELSE IF ~st.user_message.bound
        THEN [status |-> "error", error |-> "UnboundLocalError"]
      ELSE [status |-> "ok", history |-> st.history,
            user_message |-> st.user_message.val]

GenerateHistoryInternVL2 ==
  /\ op = "none"
  /\ \E messages \in SeqsUpTo(InternVL2Turns, MaxTurns) :
       /\ op' = "generate_history_internvl2"
       /\ args' = [messages |-> messages]
       /\ ret' = GenerateHistoryInternVL2Body(messages)
       /\ UNCHANGED default_device

-----------------------------------------------------------------------------
(* DolphinMLLM.prepare_inputs *)

Devices == {"cpu", "cuda:0", "cuda:1"}

\* n copies of the textual placeholder
Placeholders(n) == [i \in 1..n |-> "<image>"]

\* str_builder for a list of images with one placeholder whatever its length.
StrBuilderOnePerTurn(image) ==
  IF image.kind = "str" THEN <<"<image>">>
  ELSE IF Len(image.refs) = 0 THEN <<>> ELSE <<"<image>">>

\* str_builder of lines 40-50 for a str or list image value.
StrBuilder(image) ==
  IF image.kind = "str" THEN <<"<image>">>
  ELSE Placeholders(Len(image.refs))

\* The references lines 44 and 49 append to images.
CollectedImages(image) ==
  IF image.kind = "str" THEN <<image.ref>> ELSE image.refs

PrepareInit == [input_messages |-> <<>>, images |-> <<>>, raised |-> "none"]

\* One iteration of the loop of lines 38-61.  A role that is none of user,
\* assistant, system matches no branch: the turn is passed over.
PrepareStep(st, message) ==
  IF st.raised # "none" THEN st
  ELSE IF message.role = "user"
    THEN IF "image" \in DOMAIN message /\ message.image.kind \notin {"str", "list"}
           THEN [st EXCEPT !.raised = "ValueError"]
           ELSE LET has == "image" \in DOMAIN message
                    str_builder == IF has THEN StrBuilder(message.image) ELSE <<>>
                    usr_msg == [role |-> "user",
                                content |-> str_builder \o <<"\n">> \o message.content]
                IN  [st EXCEPT
                       !.images = IF has THEN @ \o CollectedImages(message.image) ELSE @,
                       !.input_messages = Append(@, usr_msg)]
  ELSE IF message.role = "assistant"
    THEN [st EXCEPT !.input_messages = Append(@, message)]
  ELSE IF message.role = "system"
    THEN [st EXCEPT !.input_messages = Append(@, message)]
  ELSE st

RECURSIVE PrepareLoop(_, _)
PrepareLoop(st, messages) ==
  IF messages = <<>> THEN st
  ELSE PrepareLoop(PrepareStep(st, Head(messages)), Tail(messages))

PrepareInputsBody(messages, device) ==
  LET st == PrepareLoop(PrepareInit, messages)
  IN  IF st.raised # "none" THEN [status |-> "error", error |-> st.raised]
      ELSE [status |-> "ok", prompt |-> st.input_messages, images |-> st.images,
            output_kwargs |-> [device |-> device]]

\* The caller's list after the call: no statement of prepare_inputs assigns to
\* messages or to a field of a message (the user turn is rebuilt as usr_msg).
MessagesAfterPrepareInputs(messages) == messages

PrepareInputs ==
  /\ op = "none"
  /\ \E messages \in SeqsUpTo(DolphinTurns, MaxDolphinTurns), device \in {"cpu", "cuda:0"} :
       /\ op' = "prepare_inputs"
       /\ args' = [messages |-> messages, device |-> device,
                   messages_after |-> MessagesAfterPrepareInputs(messages)]
       /\ ret' = PrepareInputsBody(messages, device)
       /\ UNCHANGED default_device

-----------------------------------------------------------------------------
(* DolphinMLLM.generate_outputs *)

MaxTextLen == 4   \* symbols of a rendered prompt: 0..MaxTextLen

\* The id spliced in for the image (line 117).
ImageTokenIndex == -200

\* A rendered chat template: text symbols and textual placeholders.
RenderedTexts == SeqsUpTo({"a", "b", "<image>"}, MaxTextLen)

\* handler(chunk).input_ids: the tokenizer is an external capability.  It is
\* modelled as a merging tokenizer (the pair "a" "b" is one token), so that
\* tokenizing a text is not tokenizing its symbols one by one.
RECURSIVE Tokenize(_)
Tokenize(chunk) ==
  IF chunk = <<>> THEN <<>>
  ELSE IF Len(chunk) >= 2 /\ chunk[1] = "a" /\ chunk[2] = "b"
    THEN <<3>> \o Tokenize(SubSeq(chunk, 3, Len(chunk)))
  ELSE <<IF chunk[1] = "a" THEN 1 ELSE 2>> \o Tokenize(Tail(chunk))

\* text.split(sep): the chunks between the occurrences of sep.
RECURSIVE Split(_, _)
Split(text, sep) ==
  IF \A k \in 1..Len(text) : text[k] # sep THEN <<text>>
  ELSE LET k == CHOOSE k \in 1..Len(text) :
                  text[k] = sep /\ \A l \in 1..(k - 1) : text[l] # sep
       IN  <<SubSeq(text, 1, k - 1)>> \o Split(SubSeq(text, k + 1, Len(text)), sep)

RECURSIVE JoinWithMarker(_)
JoinWithMarker(text_chunks) ==
  IF Len(text_chunks) = 1 THEN text_chunks[1]
  ELSE text_chunks[1] \o <<ImageTokenIndex>> \o JoinWithMarker(Tail(text_chunks))

\* The splice with one marker per placeholder.
InputIdsMarkerPerPlaceholder(text) ==
  JoinWithMarker([k \in 1..Len(Split(text, "<image>")) |->
                    Tokenize(Split(text, "<image>")[k])])

\* Lines 116-117: input_ids = text_chunks[0] + [-200] + text_chunks[-1].
InputIds(text) ==
  LET chunks == Split(text, "<image>")
      text_chunks == [k \in 1..Len(chunks) |-> Tokenize(chunks[k])]
  IN  text_chunks[1] \o <<ImageTokenIndex>> \o text_chunks[Len(text_chunks)]

\* generate_outputs up to the ids given to the model: the device of the call
\* becomes torch's default device (line 106) and is not reset before return.
GenerateOutputs ==
  /\ op = "none"
  /\ \E device \in Devices, text \in RenderedTexts :
       /\ op' = "generate_outputs"
       /\ args' = [device |-> device, text |-> text]
       /\ default_device' = device
       /\ ret' = [status |-> "ok", input_ids |-> InputIds(text), max_tokens |-> 2048]

-----------------------------------------------------------------------------
(* split_model *)

MaxUnits == 12   \* torch.cuda.device_count() ranges over 0..MaxUnits

ModelNames == {"InternVL2-1B", "InternVL2-2B", "InternVL2-4B", "InternVL2-8B",
               "InternVL2-26B", "InternVL2-40B", "InternVL2-Llama3-76B"}

\* The table of lines 70-72.
NumLayers(model_name) ==
  CASE model_name \in {"InternVL2-1B", "InternVL2-2B"} -> 24
    [] model_name \in {"InternVL2-4B", "InternVL2-8B"} -> 32
    [] model_name = "InternVL2-26B" -> 48
    [] model_name = "InternVL2-40B" -> 60
    [] model_name = "InternVL2-Llama3-76B" -> 80

\* The components pinned to unit 0 by lines 82-88.
FixedComponents ==
  {"vision_model", "mlp1", "language_model.model.tok_embeddings",
   "language_model.model.embed_tokens", "language_model.output",
   "language_model.model.norm", "language_model.lm_head"}

CeilDiv(a, b) == (a + b - 1) \div b

\* The per-unit counts rounded down instead of up.
NumLayersPerGpuFloor(num_layers, world_size) ==
  LET n == (2 * num_layers) \div (2 * world_size - 1)
  IN  [i \in 1..world_size |-> IF i = 1 THEN CeilDiv(n, 2) ELSE n]

\* Lines 74-76: ceil(num_layers / (world_size - 0.5)) per unit, and for unit 0
\* the ceiling of half of that.
NumLayersPerGpu(num_layers, world_size) ==
  LET n == CeilDiv(2 * num_layers, 2 * world_size - 1)
  IN  [i \in 1..world_size |-> IF i = 1 THEN CeilDiv(n, 2) ELSE n]

RECURSIVE SumTo(_, _)
SumTo(seq, k) == IF k = 0 THEN 0 ELSE seq[k] + SumTo(seq, k - 1)

\* The device map of a recognized model on world_size >= 1 units: the loop of
\* lines 77-81 numbers the layers 0, 1, ... unit by unit; lines 82-89 then pin
\* the fixed components and the last layer to unit 0.
DeviceMap(model_name, world_size) ==
  LET num_layers == NumLayers(model_name)
      num_layers_per_gpu == NumLayersPerGpu(num_layers, world_size)
      total == SumTo(num_layers_per_gpu, world_size)
      unit(c) == CHOOSE i \in 0..(world_size - 1) :
                   /\ SumTo(num_layers_per_gpu, i) <= c
                   /\ c < SumTo(num_layers_per_gpu, i + 1)
  IN  [layers |-> [c \in (0..(total - 1)) \cup {num_layers - 1} |->
                     IF c = num_layers - 1 THEN 0 ELSE unit(c)],
       fixed |-> [name \in FixedComponents |-> 0]]

\* An unknown name fails the lookup of line 72; with no unit, line 76 indexes
\* an empty list.
SplitModelBody(model_name, world_size) ==
  IF model_name \notin ModelNames THEN [status |-> "error", error |-> "KeyError"]
  ELSE IF world_size = 0 THEN [status |-> "error", error |-> "IndexError"]
  ELSE [status |-> "ok", device_map |-> DeviceMap(model_name, world_size)]

SplitModel ==
  /\ op = "none"
  /\ \E model_name \in ModelNames \cup {"InternVL2-Unknown"}, world_size \in 0..MaxUnits :
       /\ op' = "split_model"
       /\ args' = [model_name |-> model_name, world_size |-> world_size]
       /\ ret' = SplitModelBody(model_name, world_size)
       /\ UNCHANGED default_device

-----------------------------------------------------------------------------
(* get_internvl2_image *)

MaxImageTurns == 3    \* turns given to get_internvl2_image: 0..MaxImageTurns
MaxLoadedTiles == 2   \* tiles load_image returns for one reference: 1..MaxLoadedTiles

\* The value under 'image' of a user turn given to get_internvl2_image: a
\* list of references (possibly empty) or a single str.
InternVL2ImageValues ==
  { [kind |-> "list", refs |-> <<>>],
    [kind |-> "list", refs |-> <<"u1.png">>],
    [kind |-> "list", refs |-> <<"u2.png", "u1.png">>],
    [kind |-> "str", ref |-> "u1"] }

ImageTurns ==
  { [role |-> "user", content |-> <<"A">>] }
    \cup { [role |-> "user", content |-> <<"A">>, image |-> v] : v \in InternVL2ImageValues }
    \cup { [role |-> "assistant", content |-> <<"B">>],
           [role |-> "system", content |-> <<"S">>],
           [role |-> "moderator", content |-> <<"M">>] }

\* The characters of a str: len() and [i] on a str count and index characters.
Chars(str) == IF str = "u1" THEN <<"u", "1">> ELSE <<str>>

\* What len(image) and image[i] range over (lines 236-242).
Indexable(image) == IF image.kind = "str" THEN Chars(image.ref) ELSE image.refs

\* The loop of lines 226-231: i runs over range(len(messages)), index is
\* len(messages) - i - 1 (here 1-based: Len(messages) - i), and every user
\* turn met overwrites last_user_message; there is no break.  The result is
\* the index of the turn held when the loop ends, 0 for None.
RECURSIVE FindUserMessage(_, _, _)
FindUserMessage(messages, i, last_user_message) ==
  IF i = Len(messages) THEN last_user_message
  ELSE FindUserMessage(messages, i + 1,
                       IF messages[Len(messages) - i].role = "user"
                         THEN Len(messages) - i
                         ELSE last_user_message)

\* The rows load_image(image_file).to(bfloat16).to(device) contributes: n
\* tiles of that reference on the device.
LoadedTiles(image_file, n, device) ==
  [k \in 1..n |-> [image_file |-> image_file, tile |-> k, device |-> device]]

\* Lines 236-242 on the values to index, `counts` giving for each load the
\* number of tiles load_image returns, 0 for a reference that cannot be
\* fetched or decoded.  The first element is loaded in both branches, the
\* others in turn, each result concatenated after the earlier ones.
RECURSIVE LoadAll(_, _, _, _, _)
LoadAll(items, counts, device, k, acc) ==
  IF k > Len(items) THEN [status |-> "ok", pixel_values |-> acc.pixels, loaded |-> acc.loaded]
  ELSE IF counts[k] = 0
    THEN [status |-> "error", error |-> "ImageLoadError",
          loaded |-> Append(acc.loaded, items[k])]
  ELSE LoadAll(items, counts, device, k + 1,
               [pixels |-> acc.pixels \o LoadedTiles(items[k], counts[k], device),
                loaded |-> Append(acc.loaded, items[k])])

GetInternVL2ImageBody(messages, device, counts) ==
  LET last_user_message == FindUserMessage(messages, 0, 0)
  IN  IF last_user_message = 0
        THEN [status |-> "error", error |-> "ValueError", turn |-> 0, loaded |-> <<>>]
      ELSE IF "image" \notin DOMAIN messages[last_user_message]
        THEN [status |-> "error", error |-> "KeyError",
              turn |-> last_user_message, loaded |-> <<>>]
      ELSE IF Indexable(messages[last_user_message].image) = <<>>
        THEN [status |-> "error", error |-> "IndexError",
              turn |-> last_user_message, loaded |-> <<>>]
      ELSE LET got == LoadAll(Indexable(messages[last_user_message].image), counts,
                              device, 1, [pixels |-> <<>>, loaded |-> <<>>])
           IN  IF got.status = "ok"
                 THEN [status |-> "ok", pixel_values |-> got.pixel_values,
                       turn |-> last_user_message, loaded |-> got.loaded]
                 ELSE [status |-> "error", error |-> got.error,
                       turn |-> last_user_message, loaded |-> got.loaded]

GetInternVL2Image ==
  /\ op = "none"
  /\ \E messages \in SeqsUpTo(ImageTurns, MaxImageTurns), device \in {"cpu", "cuda:0"},
        counts \in [1..2 -> 0..MaxLoadedTiles] :
       /\ op' = "get_internvl2_image"
       /\ args' = [messages |-> messages, device |-> device]
       /\ ret' = GetInternVL2ImageBody(messages, device, counts)
       /\ UNCHANGED default_device

-----------------------------------------------------------------------------
(* The calling program *)

\* No call is in progress: the caller holds no arguments and no result.
NoArgs == [none |-> TRUE]
NoRet == [status |-> "none"]

\* The caller has consumed the result of the last call; the next call starts
\* from the same process state (only default_device outlives a call).
Return ==
  /\ op # "none"
  /\ op' = "none"
  /\ args' = NoArgs
  /\ ret' = NoRet
  /\ UNCHANGED default_device

Init ==
  /\ op = "none"
  /\ args = NoArgs
  /\ ret = NoRet
  /\ default_device = "cpu"

\* The tiling pipeline alone.
NextTiling ==
  \/ DynamicPreprocess
  \/ LoadImage
  \/ Return

SpecTiling == Init /\ [][NextTiling]_vars

\* The two conversation conventions alone.
NextConversation ==
  \/ GenerateHistoryInternVL2
  \/ PrepareInputs
  \/ Return

SpecConversation == Init /\ [][NextConversation]_vars

\* Generation with the Dolphin backend alone.
NextGenerate ==
  \/ GenerateOutputs
  \/ Return

SpecGenerate == Init /\ [][NextGenerate]_vars

\* Image loading for the InternVL2 backend alone.
NextImages ==
  \/ GetInternVL2Image
  \/ Return

SpecImages == Init /\ [][NextImages]_vars

\* The device planner alone.
NextPlanner ==
  \/ SplitModel
  \/ Return

SpecPlanner == Init /\ [][NextPlanner]_vars

\* The whole program: any operation, in any order.
Next ==
  \/ DynamicPreprocess
  \/ LoadImage
  \/ GenerateHistoryInternVL2
  \/ PrepareInputs
  \/ GenerateOutputs
  \/ SplitModel
  \/ GetInternVL2Image
  \/ Return

Spec == Init /\ [][Next]_vars

-----------------------------------------------------------------------------
(* Properties of the tiling pipeline *)

Range(seq) == { seq[k] : k \in 1..Len(seq) }

TilingCall == op = "dynamic_preprocess"

ValidTileBounds == 1 <= args.min_num /\ args.min_num <= args.max_num

\* |width/height - i/j| of the call's image for candidate c = <<i, j>>
DiffTo(c) == FracAbsDiff(Frac(args.image[1], args.image[2]), Frac(c[1], c[2]))

\* C1: with 1 <= min_tiles <= max_tiles the candidate list is non-empty and
\* the grid returned by find_closest_aspect_ratio is one of its pairs, and no
\* candidate is strictly closer to the source aspect ratio width/height.
C1_ClosestIsArgMin ==
  (TilingCall /\ ValidTileBounds) =>
    /\ ret.target_ratios # <<>>
    /\ ret.grid \in Range(ret.target_ratios)
    /\ \A c \in Range(ret.target_ratios) : ~FracLess(DiffTo(c), DiffTo(ret.grid))

\* A 3:1 image among several candidates is matched by the 3x1 grid.
C1_Witness ==
  /\ TilingCall /\ ValidTileBounds
  /\ args.image = <<3, 1>> /\ args.min_num = 1 /\ args.max_num = 4
  /\ ret.grid = <<3, 1>>

\* The scan state before candidate k is examined.
ScanBefore(k) == IF k = 1 THEN ScanInit ELSE ret.scan[k - 1]

\* Candidate k's difference compared equal to the best difference before it.
TieAt(k) == ret.scan[k].cmp = "eq"

TileArea(c) == c[1] * c[2] * args.image_size * args.image_size

SourceArea == args.image[1] * args.image[2]

\* C2 as stated: on a tie, the candidate replaces the current best exactly
\* when its tile area i*j*tile_size^2 exceeds half the source pixel area;
\* otherwise the earlier pair is kept.
C2_TieBreakAsStated ==
  (TilingCall /\ ValidTileBounds) =>
    \A k \in 1..Len(ret.scan) :
      TieAt(k) =>
        ret.scan[k].best_ratio =
          IF 2 * TileArea(ret.target_ratios[k]) > SourceArea
            THEN ret.target_ratios[k]
            ELSE ScanBefore(k).best_ratio

\* C2 amended: on a tie, the candidate replaces the current best exactly when
\* the source pixel area width*height exceeds half the candidate's tile area
\* i*j*tile_size^2; otherwise the earlier pair is kept.
C2_TieBreakSourceArea ==
  TilingCall =>
    \A k \in 1..Len(ret.scan) :
      TieAt(k) =>
        ret.scan[k].best_ratio =
          IF 2 * SourceArea > TileArea(ret.target_ratios[k])
            THEN ret.target_ratios[k]
            ELSE ScanBefore(k).best_ratio

\* A scan with a tie won by the later candidate and a scan state where the
\* stated rule (tile area against half the source area) would keep the earlier.
C2_Witness ==
  /\ TilingCall /\ ValidTileBounds
  /\ \E k \in 1..Len(ret.scan) :
       /\ TieAt(k)
       /\ ret.scan[k].best_ratio = ret.target_ratios[k]
       /\ ~(2 * TileArea(ret.target_ratios[k]) > SourceArea)

\* C3: dynamic_preprocess returns exactly cols*rows crops of the resized
\* image, one per cell of the chosen grid, plus exactly one thumbnail, last,
\* if and only if use_thumbnail is set and the grid is not 1x1.
C3_TileCount ==
  (TilingCall /\ ValidTileBounds) =>
    LET cols == ret.grid[1]
        rows == ret.grid[2]
        ts == args.image_size
        thumb == args.use_thumbnail /\ ~(cols = 1 /\ rows = 1)
        n == Len(ret.tiles)
    IN  /\ n = cols * rows + (IF thumb THEN 1 ELSE 0)
        /\ \A i \in 1..(cols * rows) : ret.tiles[i].kind = "crop"
        /\ { ret.tiles[i].box : i \in 1..(cols * rows) } =
             { <<c * ts, r * ts, (c + 1) * ts, (r + 1) * ts>> :
                 c \in 0..(cols - 1), r \in 0..(rows - 1) }
        /\ thumb => ret.tiles[n].kind = "thumbnail"

\* A 2x2 grid with the thumbnail appended as fifth tile.
C3_Witness ==
  /\ TilingCall /\ ValidTileBounds
  /\ args.use_thumbnail
  /\ ret.grid = <<2, 2>>
  /\ Len(ret.tiles) = 5
  /\ ret.tiles[5].kind = "thumbnail"

\* C6: a tiling call with min_tiles > max_tiles or a non-positive bound fails
\* with an invalid-constraint error, returns no tiles, and has fetched,
\* resized and cropped nothing.
C6_InvalidBoundsRejected ==
  (op \in {"dynamic_preprocess", "load_image"} /\ ~ValidTileBounds) =>
    /\ ret.status = "error"
    /\ ret.error = "InvalidTilingConstraint"
    /\ ret.io = <<>>

-----------------------------------------------------------------------------
(* Properties of the conversation adapters *)

HistoryCall == op = "generate_history_internvl2"

PrepareCall == op = "prepare_inputs"

Turns == args.messages

UserIdx == { k \in 1..Len(Turns) : Turns[k].role = "user" }

AssistantIdx == { k \in 1..Len(Turns) : Turns[k].role = "assistant" }

Max(S) == CHOOSE x \in S : \A y \in S : y <= x

\* The user turn most recently seen before turn k.
LastUserBefore(k) == Max({ u \in UserIdx : u < k })

\* The content held for a user turn: prefixed when the turn carries an image.
Held(m) ==
  IF "image" \in DOMAIN m THEN InternVL2ImagePrefix \o m.content ELSE m.content

\* The conversations C4 is about: recognized roles only, at least one user
\* turn, every assistant turn after some user turn.
WellFormedForHistory ==
  /\ \A k \in 1..Len(Turns) : Turns[k].role \in Roles
  /\ UserIdx # {}
  /\ \A k \in AssistantIdx : \E u \in UserIdx : u < k

C5_UnknownRoleFails ==
  ((HistoryCall \/ PrepareCall) /\ \E k \in 1..Len(Turns) : Turns[k].role \notin Roles) =>
    ret.status = "error"

\* The image references of a turn, in reference order.
Refs(m) ==
  IF "image" \notin DOMAIN m THEN <<>>
  ELSE IF m.image.kind = "str" THEN <<m.image.ref>>
  ELSE m.image.refs

\* The turns with a recognized role, in order.
Recognized == SelectSeq(Turns, LAMBDA m : m.role \in Roles)

RECURSIVE AllRefs(_)
AllRefs(msgs) ==
  IF msgs = <<>> THEN <<>>
  ELSE (IF Head(msgs).role = "user" THEN Refs(Head(msgs)) ELSE <<>>) \o AllRefs(Tail(msgs))

\* The conversations C9 is about: every user turn carries no image, a single
\* reference or a list of references.
ImagesWellTyped ==
  \A k \in UserIdx : "image" \in DOMAIN Turns[k] => Turns[k].image.kind \in {"str", "list"}

-----------------------------------------------------------------------------
(* Properties of generation with the Dolphin backend *)

GenerateCall == op = "generate_outputs"

\* torch's default device before the first call
InitialDevice == "cpu"

\* C8: whatever calls of generate_outputs were made, with whatever devices,
\* the process-wide default device is what it was before the first call.
C8_DefaultDeviceUntouched == default_device = InitialDevice

PlaceholderIdx == { k \in 1..Len(args.text) : args.text[k] = "<image>" }

MarkerCount(ids) == Cardinality({ k \in 1..Len(ids) : ids[k] = ImageTokenIndex })

\* C10: for a rendered prompt with exactly one placeholder the ids are the
\* tokens of the text before it, the marker id, the tokens of the text after
\* it; for any other number of placeholders the ids hold exactly one marker.
C10_MarkerSplice ==
  GenerateCall =>
    /\ MarkerCount(ret.input_ids) = 1
    /\ Cardinality(PlaceholderIdx) = 1 =>
         LET p == CHOOSE k \in PlaceholderIdx : TRUE
         IN  ret.input_ids =
               Tokenize(SubSeq(args.text, 1, p - 1)) \o <<ImageTokenIndex>>
                 \o Tokenize(SubSeq(args.text, p + 1, Len(args.text)))

\* One placeholder with text on both sides, the text before it merging into
\* one token: "a" "b" <image> "b" gives 3, -200, 2.
C10_Witness ==
  /\ GenerateCall
  /\ args.text = <<"a", "b", "<image>", "b">>
  /\ ret.input_ids = <<3, ImageTokenIndex, 2>>

-----------------------------------------------------------------------------
(* Properties of the device planner *)

PlannerCall == op = "split_model"

RecognizedPlan == PlannerCall /\ args.model_name \in ModelNames /\ args.world_size >= 1

BlockKeys == DOMAIN ret.device_map.layers

\* C7 as stated: the block keys are exactly 0..L-1, next to the fixed
\* components, and every value is a unit index in 0..units-1.
C7_BlockKeysExact ==
  RecognizedPlan =>
    /\ ret.status = "ok"
    /\ BlockKeys = 0..(NumLayers(args.model_name) - 1)
    /\ DOMAIN ret.device_map.fixed = FixedComponents
    /\ \A c \in BlockKeys : ret.device_map.layers[c] \in 0..(args.world_size - 1)
    /\ \A n \in FixedComponents : ret.device_map.fixed[n] \in 0..(args.world_size - 1)

\* C7 amended: the block keys are 0..T-1 for some T with L <= T < L + units,
\* so every block 0..L-1 of the size class appears once and up to units-1
\* surplus keys L..T-1 may follow; next to them the fixed components; every
\* value is a unit index in 0..units-1.
C7_BlockKeysCover ==
  RecognizedPlan =>
    /\ ret.status = "ok"
    /\ \E T \in NumLayers(args.model_name)..(NumLayers(args.model_name) + args.world_size - 1) :
         BlockKeys = 0..(T - 1)
    /\ DOMAIN ret.device_map.fixed = FixedComponents
    /\ \A c \in BlockKeys : ret.device_map.layers[c] \in 0..(args.world_size - 1)
    /\ \A n \in FixedComponents : ret.device_map.fixed[n] \in 0..(args.world_size - 1)

\* 24 blocks on 3 units: 5 + 10 + 10 keys, the 25th a surplus key.
C7_Witness ==
  /\ RecognizedPlan
  /\ args.model_name = "InternVL2-1B" /\ args.world_size = 3
  /\ BlockKeys = 0..24
  /\ ret.device_map.layers[24] = 2

-----------------------------------------------------------------------------
(* Properties of image loading for the InternVL2 backend *)

ImageCall == op = "get_internvl2_image"

\* Every user turn carries a non-empty list of image references.
UserTurnsListImages ==
  \A i \in UserIdx :
    /\ "image" \in DOMAIN Turns[i]
    /\ Turns[i].image.kind = "list"
    /\ Turns[i].image.refs # <<>>

\* C11: get_internvl2_image loads the images of the last user message: with
\* at least one user turn (each carrying a list of references), a call that
\* returns has loaded the references of the user turn of greatest index, in
\* reference order, and its result is their tiles concatenated in that
\* order; with no user turn the call fails with an error.
C11_LoadsLastUserTurn ==
  ImageCall =>
    /\ UserIdx = {} => (ret.status = "error" /\ ret.error = "ValueError")
    /\ (UserIdx # {} /\ UserTurnsListImages /\ ret.status = "ok") =>
         /\ ret.loaded = Turns[Max(UserIdx)].image.refs
         /\ \A a, b \in 1..Len(ret.pixel_values) :
              LET pos(f) == CHOOSE k \in 1..Len(ret.loaded) : ret.loaded[k] = f
              IN  a < b => pos(ret.pixel_values[a].image_file)
                             <= pos(ret.pixel_values[b].image_file)

\* Two user turns with different references, both loadable: the call returns
\* having loaded the references of the earlier one.
C11_FirstUserTurnLoaded ==
  /\ ImageCall /\ ret.status = "ok"
  /\ UserTurnsListImages
  /\ Cardinality(UserIdx) = 2
  /\ ret.turn < Max(UserIdx)
  /\ ret.loaded = Turns[ret.turn].image.refs
  /\ ret.loaded # Turns[Max(UserIdx)].image.refs

====
